---- MODULE Spec2Model ----
(***************************************************************************)
(* Product-service reservation engine                                      *)
(* (services/product-service/app/grpc_server.py, ProductServiceServicer)   *)
(* together with the inventory CRUD operation that writes the stock        *)
(* quantity (services/product-service/app/product/crud/inventory.py).      *)
(*                                                                         *)
(* The database is modelled by the tables the servicer reads and writes:   *)
(*   products            is_active                                         *)
(*   inventory           quantity, reserved_quantity (one row per product) *)
(*   product_reservations  the line items, in insertion order              *)
(* The class Inventory (product/models/inventory.py) declares id,           *)
(* product_id and quantity itself and takes further columns from the mixin *)
(* app.common.mixins.Timestamp; it declares no reserved_quantity.  The     *)
(* ledger column reserved_quantity is modelled as the attribute that       *)
(* ReserveProducts and _release_reservation_internal_db read and write     *)
(* (grpc_server.py:356-357, 402-403) and that the CRUD layer passes to the *)
(* constructor (crud/inventory.py:49, crud/product.py:53).                 *)
(*                                                                         *)
(* Every RPC handler is split at its suspension points: waiting for the    *)
(* asyncio lock, each database read of the item loop, and the final        *)
(* commit or rollback.  Time is counted in minutes.                        *)
(***************************************************************************)
EXTENDS Integers, Sequences, FiniteSets, TLC

\* ---------------------------------------------------------------- bounds
MaxItems == 2
MaxLineItems == 2
MaxTime == 16
MaxIds == 2
MaxStock == 4
MaxArg == 2

\* ------------------------------------------------------ program constants
ReservationTTL == 15

\* ----------------------------------------------------------------- inputs
Callers == {"c1", "c2"}
\* callers that issue requests one after another
Clients == {"c1"}
Products == {"A", "B"}
UnknownIds == {"M"}
MalformedIds == {"bad"}
ProductIds == Products \cup UnknownIds \cup MalformedIds
ReqQuantities == {1, 3}
StockLevels == {2, 5}
\* reserved_quantity as a create request may state it
ReservedInputs == {0, 1}
\* value of an attribute that was not assigned yet (None)
NoId == "None"
SuppliedIds == {"R1"}
GeneratedIds == {"U1"}
ReservationIds == SuppliedIds \cup GeneratedIds
ClockStep == ReservationTTL + 1
\* products.is_active as found at start-up: A is on sale, B may be withdrawn
ActiveChoices == {[p \in Products |-> TRUE], [p \in Products |-> p = "A"]}

NoHolder == "free"
\* Inventory(product_id, quantity=0): reserved_quantity defaults to 0
NoEntity == [quantity |-> 0, reserved_quantity |-> 0, raised |-> FALSE]

VARIABLES
    is_active,      \* products.is_active, per product
    quantity,       \* inventory.quantity, per product
    reserved,       \* inventory.reserved_quantity, per product
    lineItems,      \* committed rows of product_reservations
    reservations,   \* ProductServiceServicer.reservations (in-memory dict)
    lock,           \* holder of ProductServiceServicer.reservation_lock
    now,            \* the clock, datetime.now()
    sweepPc,        \* position of the cleanup task: "scan", "sleep" or "done"
    shutdownPc,     \* position of ProductServiceServicer.shutdown
    stocked,        \* products that have an inventory row
    crudError,      \* exception raised by the last call of the CRUD layer
    entity,         \* an Inventory object of the shared domain model
    pc,             \* position of each in-flight RPC call
    req,            \* request of each in-flight RPC call
    sess,           \* local variables and open session of each call
    resp            \* response of each finished RPC call

vars == <<is_active, quantity, reserved, lineItems, reservations, lock, now,
          sweepPc, shutdownPc, stocked, crudError, entity, pc, req, sess, resp>>

dbVars == <<is_active, quantity, reserved, lineItems, stocked>>
\* the task's shutdown, the REST side and the domain object, which no RPC
\* handler touches
sideVars == <<shutdownPc, crudError, entity>>
callVars == <<pc, req, sess, resp>>

\* ---------------------------------------------------------------- helpers
Max(a, b) == IF a >= b THEN a ELSE b

RECURSIVE SumQty(_)
SumQty(s) == IF s = <<>> THEN 0 ELSE Head(s).quantity + SumQty(Tail(s))

\* UUID(product_id_str) succeeds
IsUUID(id) == id \in Products \cup UnknownIds

\* an availability check that ignores what is already reserved
ActiveReservedFor_Nothing(items, p) == 0

\* the same sum without the status filter
ActiveReservedFor_AnyStatus(items, p) ==
    LET IsFor(li) == li.product_id = p
    IN  SumQty(SelectSeq(items, IsFor))

\* select(ProductReservation.quantity).where(product_id = p, status = "ACTIVE"), summed
ActiveReservedFor(items, p) ==
    LET IsActiveFor(li) == li.product_id = p /\ li.status = "ACTIVE"
    IN  SumQty(SelectSeq(items, IsActiveFor))

\* the same query without the status filter
ActiveByReservation_AnyStatus(items, rid) ==
    LET IsOf(li) == li.reservation_id = rid
    IN  SelectSeq(items, IsOf)

\* select(ProductReservation).where(reservation_id = rid, status = "ACTIVE")
ActiveByReservation(items, rid) ==
    LET IsActiveOf(li) == li.reservation_id = rid /\ li.status = "ACTIVE"
    IN  SelectSeq(items, IsActiveOf)

\* GetProduct: available_qty = max(0, product.stock_quantity - reserved_qty)
AvailableQuantity(p) == Max(0, quantity[p] - reserved[p])

NoRequest == [kind |-> "none", reservation_id |-> "", items |-> <<>>, product_ids |-> <<>>]
NoSession == [idx |-> 0, staged |-> <<>>, results |-> <<>>, all_reserved |-> TRUE,
              product_id_uuid |-> "", quantity |-> 0]
NoResponse == [kind |-> "none", status |-> "OK", all_reserved |-> FALSE,
               results |-> <<>>, reservation_id |-> "", success |-> FALSE,
               products |-> <<>>]

\* requested items: any quantity of a product on file, one unit of an id that
\* is unknown or malformed
Items == [product_id : Products, quantity : ReqQuantities]
           \cup [product_id : UnknownIds \cup MalformedIds, quantity : {1}]
RECURSIVE SeqsUpTo(_, _)
SeqsUpTo(S, n) ==
    IF n = 0 THEN {<<>>}
    ELSE LET shorter == SeqsUpTo(S, n - 1)
         IN  shorter \cup {Append(s, x) : s \in {t \in shorter : Len(t) = n - 1}, x \in S}
Batches == SeqsUpTo(Items, MaxItems)
\* request.product_ids of GetMultipleProducts
IdLists == SeqsUpTo(ProductIds, MaxIds)

\* -------------------------------------------------------------------- Init
Init ==
    /\ is_active \in ActiveChoices
    /\ quantity \in [Products -> StockLevels]
    /\ reserved = [p \in Products |-> 0]
    /\ lineItems = <<>>
    /\ reservations = <<>>
    /\ lock = NoHolder
    /\ now = 0
    /\ sweepPc = "scan"
    /\ shutdownPc = "idle"
    /\ stocked = Products
    /\ crudError = "none"
    /\ entity = NoEntity
    /\ pc = [c \in Callers |-> "idle"]
    /\ req = [c \in Callers |-> NoRequest]
    /\ sess = [c \in Callers |-> NoSession]
    /\ resp = [c \in Callers |-> NoResponse]

\* ------------------------------------------------------------------- lock
\* an acquire that never waits
LockFree_NeverWaits == TRUE

\* asyncio.Lock: acquire proceeds only when the lock is not held
LockFree == lock = NoHolder

\* ------------------------------------------------------- ReserveProducts
\* line items one call may still commit
RECURSIVE PendingIn(_)
PendingIn(S) ==
    IF S = {} THEN 0
    ELSE LET c == CHOOSE x \in S : TRUE
             n == IF req[c].kind = "reserve" /\ pc[c] # "done"
                  THEN Len(req[c].items) ELSE 0
         IN  n + PendingIn(S \ {c})
PendingLineItems == PendingIn(Callers)

UsedIds == {lineItems[i].reservation_id : i \in 1..Len(lineItems)}
             \cup {req[c].reservation_id : c \in Callers}

\* request.reservation_id or str(uuid.uuid4())
ReserveCall(c, rid, items) ==
    /\ pc[c] = "idle"
    /\ Len(lineItems) + PendingLineItems + Len(items) <= MaxLineItems
    /\ \E id \in (IF rid = "" THEN GeneratedIds \ UsedIds ELSE {rid}) :
          req' = [req EXCEPT ![c] = [NoRequest EXCEPT !.kind = "reserve",
                                                      !.reservation_id = id,
                                                      !.items = items]]
    /\ pc' = [pc EXCEPT ![c] = "rsv_wait"]
    /\ resp' = [resp EXCEPT ![c] = NoResponse]
    /\ UNCHANGED <<dbVars, sideVars, reservations, lock, now, sweepPc, sess>>

\* async with self.reservation_lock / async with AsyncSessionLocal()
ReserveAcquire(c) ==
    /\ pc[c] = "rsv_wait"
    /\ LockFree
    /\ lock' = c
    /\ pc' = [pc EXCEPT ![c] = "rsv_check"]
    /\ sess' = [sess EXCEPT ![c] = [NoSession EXCEPT !.idx = 1]]
    /\ UNCHANGED <<dbVars, sideVars, reservations, now, sweepPc, req, resp>>

Result(pid, ok, qty, msg, avail) ==
    [product_id |-> pid, success |-> ok, reserved_quantity |-> qty,
     message |-> msg, available |-> avail]

\* records the refusal of the item but still lets the batch commit
Failed_KeepsAllReserved(s, pid, msg, avail) ==
    [s EXCEPT !.results = Append(@, Result(pid, FALSE, 0, msg, avail)),
              !.idx = @ + 1]

\* refuses the item without appending its result
Failed_NoResult(s, pid, msg, avail) ==
    [s EXCEPT !.all_reserved = FALSE,
              !.idx = @ + 1]

Failed(s, pid, msg, avail) ==
    [s EXCEPT !.results = Append(@, Result(pid, FALSE, 0, msg, avail)),
              !.all_reserved = FALSE,
              !.idx = @ + 1]

\* one pass of the loop "for item in products_to_reserve"
CheckItem(s, rid, item, t) ==
    LET pid == item.product_id
        qty == item.quantity
        available_qty == Max(0, quantity[pid] - ActiveReservedFor(lineItems, pid))
        s0 == [s EXCEPT !.quantity = qty]
    IN  IF ~IsUUID(pid) THEN Failed(s0, pid, "invalid", 0)
        ELSE LET s1 == [s0 EXCEPT !.product_id_uuid = pid]
             IN  IF pid \notin stocked THEN Failed(s1, pid, "not_found", 0)
                 ELSE IF ~is_active[pid] THEN Failed(s1, pid, "inactive", 0)
                 ELSE IF available_qty < qty
                      THEN Failed(s1, pid, "insufficient", available_qty)
                 ELSE [s1 EXCEPT
                         !.staged = Append(@, [reservation_id |-> rid,
                                               product_id |-> pid,
                                               quantity |-> qty,
                                               status |-> "ACTIVE",
                                               expires_at |-> t + ReservationTTL]),
                         !.results = Append(@, Result(pid, TRUE, qty, "reserved", 0)),
                         !.idx = @ + 1]

ReserveCheck(c) ==
    /\ pc[c] = "rsv_check"
    /\ sess[c].idx <= Len(req[c].items)
    /\ sess' = [sess EXCEPT ![c] =
                   CheckItem(sess[c], req[c].reservation_id, req[c].items[sess[c].idx], now)]
    /\ UNCHANGED <<dbVars, sideVars, reservations, lock, now, sweepPc, pc, req, resp>>

\* commits whatever was staged, also after a failed item
ReserveOutcome_AlwaysCommit(s) ==
    IF s.product_id_uuid = "" \/ s.product_id_uuid \notin stocked THEN "error" ELSE "commit"

\* "if all_reserved: ... await session.commit()  else: await session.rollback()"
ReserveOutcome(s) ==
    IF ~s.all_reserved THEN "rollback"
    ELSE IF s.product_id_uuid = "" THEN "error"   \* NameError: the loop never ran
    ELSE IF s.product_id_uuid \notin stocked THEN "error"  \* scalar_one(): NoResultFound
    ELSE "commit"

\* inventory.reserved_quantity = current_reserved + quantity
ReserveLedger(res, s) ==
    [res EXCEPT ![s.product_id_uuid] = @ + s.quantity]

ReserveCommit(c) ==
    /\ pc[c] = "rsv_check"
    /\ sess[c].idx > Len(req[c].items)
    /\ LET s == sess[c]
           outcome == ReserveOutcome(s)
       IN  /\ IF outcome = "commit"
              THEN /\ reserved' = ReserveLedger(reserved, s)
                   /\ lineItems' = lineItems \o s.staged
              ELSE UNCHANGED <<reserved, lineItems>>
           /\ resp' = [resp EXCEPT ![c] =
                  IF outcome = "error"
                  THEN [NoResponse EXCEPT !.kind = "reserve", !.status = "INTERNAL"]
                  ELSE [NoResponse EXCEPT !.kind = "reserve",
                                          !.all_reserved = s.all_reserved,
                                          !.results = s.results,
                                          !.reservation_id = req[c].reservation_id]]
    /\ lock' = NoHolder
    /\ pc' = [pc EXCEPT ![c] = "done"]
    /\ sess' = [sess EXCEPT ![c] = NoSession]
    /\ UNCHANGED <<is_active, quantity, stocked, sideVars, reservations, now, sweepPc, req>>

\* ----------------------------------------------------- ReleaseReservation
ReleaseCall(c, rid) ==
    /\ pc[c] = "idle"
    /\ req' = [req EXCEPT ![c] = [NoRequest EXCEPT !.kind = "release",
                                                   !.reservation_id = rid]]
    /\ pc' = [pc EXCEPT ![c] = "rel_wait"]
    /\ resp' = [resp EXCEPT ![c] = NoResponse]
    /\ UNCHANGED <<dbVars, sideVars, reservations, lock, now, sweepPc, sess>>

ReleaseAcquire(c) ==
    /\ pc[c] = "rel_wait"
    /\ LockFree
    /\ lock' = c
    /\ pc' = [pc EXCEPT ![c] = "rel_check"]
    /\ UNCHANGED <<dbVars, sideVars, reservations, now, sweepPc, req, sess, resp>>

\* "if not reservations: return ReleaseReservationResponse(success=False, ...)"
ReleaseCheck(c) ==
    /\ pc[c] = "rel_check"
    /\ IF ActiveByReservation(lineItems, req[c].reservation_id) = <<>>
       THEN /\ resp' = [resp EXCEPT ![c] = [NoResponse EXCEPT !.kind = "release"]]
            /\ lock' = NoHolder
            /\ pc' = [pc EXCEPT ![c] = "done"]
       ELSE /\ pc' = [pc EXCEPT ![c] = "rel_apply"]
            /\ UNCHANGED <<resp, lock>>
    /\ UNCHANGED <<dbVars, sideVars, reservations, now, sweepPc, req, sess>>

\* writes the sweep's status instead of RELEASED
MarkReleased_AsExpired(items, rid) ==
    [i \in 1..Len(items) |->
        IF items[i].reservation_id = rid /\ items[i].status = "ACTIVE"
        THEN [items[i] EXCEPT !.status = "EXPIRED"]
        ELSE items[i]]

\* reservation.status = "RELEASED" for every ACTIVE row of the reservation
MarkReleased(items, rid) ==
    [i \in 1..Len(items) |->
        IF items[i].reservation_id = rid /\ items[i].status = "ACTIVE"
        THEN [items[i] EXCEPT !.status = "RELEASED"]
        ELSE items[i]]

\* inventory.reserved_quantity = max(0, current_reserved - reservation.quantity),
\* once for every row of the list that still has an inventory row, in order
RECURSIVE ReleaseLedger(_, _)
ReleaseLedger(res, rows) ==
    IF rows = <<>> THEN res
    ELSE LET r == Head(rows)
         IN  ReleaseLedger(IF r.product_id \in stocked      \* "if inventory:"
                           THEN [res EXCEPT ![r.product_id] = Max(0, @ - r.quantity)]
                           ELSE res,
                           Tail(rows))

\* _release_reservation_internal_db followed by session.commit()
ReleaseApply(c) ==
    /\ pc[c] = "rel_apply"
    /\ LET rid == req[c].reservation_id
       IN  /\ lineItems' = MarkReleased(lineItems, rid)
           /\ reserved' = ReleaseLedger(reserved, ActiveByReservation(lineItems, rid))
    /\ resp' = [resp EXCEPT ![c] = [NoResponse EXCEPT !.kind = "release",
                                                      !.success = TRUE]]
    /\ lock' = NoHolder
    /\ pc' = [pc EXCEPT ![c] = "done"]
    /\ UNCHANGED <<is_active, quantity, stocked, sideVars, reservations, now, sweepPc, req, sess>>

\* ------------------------------------------------------------- GetProduct
\* context.abort of grpc.aio: the first abort of a call sends its status and
\* raises AbortError; a later abort of the same call raises RuntimeError and
\* sends nothing.  sent is the status sent so far, "none" before any abort
AbortStatus(sent, code) == IF sent = "none" THEN code ELSE sent

\* an abort raised inside "try" is caught by "except Exception", which aborts
\* again with INTERNAL
AbortInsideTry(code) == AbortStatus(AbortStatus("none", code), "INTERNAL")

\* GetProductResponse built from the joined row
ProductMessage(p) ==
    [product_id |-> p,
     stock_quantity |-> quantity[p],
     reserved_quantity |-> reserved[p],
     available_quantity |-> AvailableQuantity(p),
     is_active |-> is_active[p]]

GetProductCall(c, pid) ==
    /\ pc[c] = "idle"
    /\ req' = [req EXCEPT ![c] = [NoRequest EXCEPT !.kind = "get", !.product_ids = <<pid>>]]
    /\ pc' = [pc EXCEPT ![c] = "get"]
    /\ resp' = [resp EXCEPT ![c] = NoResponse]
    /\ UNCHANGED <<dbVars, sideVars, reservations, lock, now, sweepPc, sess>>

\* UUID(product_id_str), then the select over products joined with inventory
GetProduct(c) ==
    /\ pc[c] = "get"
    /\ LET pid == req[c].product_ids[1]
       IN  resp' = [resp EXCEPT ![c] =
              IF ~IsUUID(pid)
              THEN [NoResponse EXCEPT !.kind = "get",
                                      !.status = AbortInsideTry("INVALID_ARGUMENT")]
              ELSE IF pid \notin stocked
              THEN [NoResponse EXCEPT !.kind = "get",
                                      !.status = AbortInsideTry("NOT_FOUND")]
              ELSE [NoResponse EXCEPT !.kind = "get",
                                      !.products = <<ProductMessage(pid)>>]]
    /\ pc' = [pc EXCEPT ![c] = "done"]
    /\ UNCHANGED <<dbVars, sideVars, reservations, lock, now, sweepPc, req, sess>>

\* session.execute raises; the id was parsed before the session was opened
GetProductStoreFailure(c) ==
    /\ pc[c] = "get"
    /\ IsUUID(req[c].product_ids[1])
    /\ resp' = [resp EXCEPT ![c] = [NoResponse EXCEPT !.kind = "get",
                                        !.status = AbortStatus("none", "INTERNAL")]]
    /\ pc' = [pc EXCEPT ![c] = "done"]
    /\ UNCHANGED <<dbVars, sideVars, reservations, lock, now, sweepPc, req, sess>>

\* ---------------------------------------------------- GetMultipleProducts
\* product_ids_uuid: the ids that UUID() accepts, in request order
RECURSIVE WellFormed(_)
WellFormed(ids) ==
    IF ids = <<>> THEN <<>>
    ELSE IF IsUUID(Head(ids)) THEN <<Head(ids)>> \o WellFormed(Tail(ids))
    ELSE WellFormed(Tail(ids))

Range(seq) == {seq[i] : i \in 1..Len(seq)}

\* the orders in which a select without ORDER BY may return the rows of S
Enumerations(S) ==
    {seq \in [1..Cardinality(S) -> S] : \A i, j \in 1..Cardinality(S) : i # j => seq[i] # seq[j]}

GetMultipleProductsCall(c, ids) ==
    /\ pc[c] = "idle"
    /\ req' = [req EXCEPT ![c] = [NoRequest EXCEPT !.kind = "get_many", !.product_ids = ids]]
    /\ pc' = [pc EXCEPT ![c] = "get_many"]
    /\ resp' = [resp EXCEPT ![c] = NoResponse]
    /\ UNCHANGED <<dbVars, sideVars, reservations, lock, now, sweepPc, sess>>

\* "if not product_ids_uuid: return ...(products=[])", else the select with
\* Product.id.in_(product_ids_uuid) over products joined with inventory
GetMultipleProducts(c) ==
    /\ pc[c] = "get_many"
    /\ LET product_ids_uuid == WellFormed(req[c].product_ids)
           found == Range(product_ids_uuid) \cap stocked
       IN  \E rows \in Enumerations(found) :
              resp' = [resp EXCEPT ![c] =
                 [NoResponse EXCEPT !.kind = "get_many",
                                    !.products = IF product_ids_uuid = <<>> THEN <<>>
                                                 ELSE [i \in 1..Len(rows) |-> ProductMessage(rows[i])]]]
    /\ pc' = [pc EXCEPT ![c] = "done"]
    /\ UNCHANGED <<dbVars, sideVars, reservations, lock, now, sweepPc, req, sess>>

\* session.execute raises; no session is opened without a well-formed id
GetMultipleStoreFailure(c) ==
    /\ pc[c] = "get_many"
    /\ WellFormed(req[c].product_ids) # <<>>
    /\ resp' = [resp EXCEPT ![c] = [NoResponse EXCEPT !.kind = "get_many",
                                        !.status = AbortStatus("none", "INTERNAL")]]
    /\ pc' = [pc EXCEPT ![c] = "done"]
    /\ UNCHANGED <<dbVars, sideVars, reservations, lock, now, sweepPc, req, sess>>

\* ---------------------------------------------------------- store failures
\* "except Exception: ... await context.abort(grpc.StatusCode.INTERNAL, ...)"
InternalError(kind) == [NoResponse EXCEPT !.kind = kind, !.status = "INTERNAL"]

\* a failure path that leaves "async with" without giving the lock back
ReserveStoreFailure_KeepsLock(c) ==
    /\ pc[c] = "rsv_check"
    /\ resp' = [resp EXCEPT ![c] = InternalError("reserve")]
    /\ lock' = lock
    /\ pc' = [pc EXCEPT ![c] = "done"]
    /\ sess' = [sess EXCEPT ![c] = NoSession]
    /\ UNCHANGED <<dbVars, sideVars, reservations, now, sweepPc, req>>

\* a statement of ReserveProducts raises (an execute of the item loop, the
\* inventory select, the commit or the rollback): the session is closed with
\* its staged rows, the lock is released, the call is aborted
ReserveStoreFailure(c) ==
    /\ pc[c] = "rsv_check"
    /\ resp' = [resp EXCEPT ![c] = InternalError("reserve")]
    /\ lock' = NoHolder
    /\ pc' = [pc EXCEPT ![c] = "done"]
    /\ sess' = [sess EXCEPT ![c] = NoSession]
    /\ UNCHANGED <<dbVars, sideVars, reservations, now, sweepPc, req>>

\* the check query of ReleaseReservation raises
ReleaseCheckFailure(c) ==
    /\ pc[c] = "rel_check"
    /\ resp' = [resp EXCEPT ![c] = InternalError("release")]
    /\ lock' = NoHolder
    /\ pc' = [pc EXCEPT ![c] = "done"]
    /\ UNCHANGED <<dbVars, sideVars, reservations, now, sweepPc, req, sess>>

\* the first m ACTIVE rows of the reservation get status RELEASED
RECURSIVE MarkFirst(_, _, _)
MarkFirst(items, rid, m) ==
    IF items = <<>> THEN <<>>
    ELSE LET li == Head(items)
         IN  IF m > 0 /\ li.reservation_id = rid /\ li.status = "ACTIVE"
             THEN <<[li EXCEPT !.status = "RELEASED"]>> \o MarkFirst(Tail(items), rid, m - 1)
             ELSE <<li>> \o MarkFirst(Tail(items), rid, m)

\* a statement of _release_reservation_internal_db raises after k rows were
\* handled: the select of the rows (k = 0, nothing marked) or the inventory
\* select of row k + 1, which is already marked.  "except Exception" logs it
\* and the helper returns; ReleaseReservation goes on to session.commit(),
\* which either writes what the session holds and lets the call answer
\* success=True, or raises as well and aborts the call
ReleaseApplyFailure(c) ==
    /\ pc[c] = "rel_apply"
    /\ LET rid == req[c].reservation_id
           rows == ActiveByReservation(lineItems, rid)
       IN  \E k \in 0..(Len(rows) - 1), marked \in BOOLEAN, commits \in BOOLEAN :
              /\ (k > 0 => marked)
              /\ IF commits
                 THEN /\ lineItems' = MarkFirst(lineItems, rid, IF marked THEN k + 1 ELSE k)
                      /\ reserved' = ReleaseLedger(reserved, SubSeq(rows, 1, k))
                      /\ resp' = [resp EXCEPT ![c] = [NoResponse EXCEPT !.kind = "release",
                                                                        !.success = TRUE]]
                 ELSE /\ UNCHANGED <<lineItems, reserved>>
                      /\ resp' = [resp EXCEPT ![c] = InternalError("release")]
    /\ lock' = NoHolder
    /\ pc' = [pc EXCEPT ![c] = "done"]
    /\ UNCHANGED <<is_active, quantity, stocked, sideVars, reservations, now, sweepPc, req, sess>>

\* the commit of ReleaseReservation raises after the helper ran through
ReleaseCommitFailure(c) ==
    /\ pc[c] = "rel_apply"
    /\ resp' = [resp EXCEPT ![c] = InternalError("release")]
    /\ lock' = NoHolder
    /\ pc' = [pc EXCEPT ![c] = "done"]
    /\ UNCHANGED <<dbVars, sideVars, reservations, now, sweepPc, req, sess>>

\* the RPC is cancelled while its handler is suspended: CancelledError is raised
\* at the await, which no "except Exception" catches; "async with" closes the
\* session without a commit and gives back the lock if the call holds it
CallCancelled(c) ==
    /\ pc[c] \in {"rsv_wait", "rsv_check", "rel_wait", "rel_check", "rel_apply"}
    /\ resp' = [resp EXCEPT ![c] = [NoResponse EXCEPT !.kind = req[c].kind,
                                                      !.status = "CANCELLED"]]
    /\ lock' = IF lock = c THEN NoHolder ELSE lock
    /\ pc' = [pc EXCEPT ![c] = "done"]
    /\ sess' = [sess EXCEPT ![c] = NoSession]
    /\ UNCHANGED <<dbVars, sideVars, reservations, now, sweepPc, req>>

\* the caller receives the response
Return(c) ==
    /\ pc[c] = "done"
    /\ pc' = [pc EXCEPT ![c] = "idle"]
    /\ req' = [req EXCEPT ![c] = NoRequest]
    /\ resp' = [resp EXCEPT ![c] = NoResponse]
    /\ UNCHANGED <<dbVars, sideVars, reservations, lock, now, sweepPc, sess>>

\* ------------------------------------------------------------ cleanup task
\* reservation ids of self.reservations whose expires_at has passed
ExpiredReservations ==
    {rid \in DOMAIN reservations : now > reservations[rid].expires_at}

\* self._cleanup_task.cancel() was called: the task's next step raises
\* CancelledError at the await it is suspended in
CancelRequested == shutdownPc # "idle"

\* one pass of "while True" in cleanup_expired_reservations: the scan runs under
\* the lock and reads only self.reservations; self._release_reservation_internal
\* is not defined, so a non-empty scan raises AttributeError, which "except
\* Exception" catches; both ways the task goes to sleep and the database is
\* not touched
SweepTick ==
    /\ sweepPc = "scan"
    /\ ~CancelRequested
    /\ LockFree
    /\ IF ExpiredReservations = {}
       THEN sweepPc' = "sleep"      \* nothing to clean up
       ELSE sweepPc' = "sleep"      \* AttributeError, logged by "except Exception"
    /\ UNCHANGED <<dbVars, sideVars, reservations, lock, now, callVars>>

\* "await asyncio.sleep(60)" returns
SweepWake ==
    /\ sweepPc = "sleep"
    /\ ~CancelRequested
    /\ sweepPc' = "scan"
    /\ UNCHANGED <<dbVars, sideVars, reservations, lock, now, callVars>>

\* CancelledError arrives in "async with self.reservation_lock" or in
\* "await asyncio.sleep(60)", both inside the try: "except
\* asyncio.CancelledError: ... break" ends the task
SweepCancelled ==
    /\ shutdownPc = "awaiting"
    /\ sweepPc \in {"scan", "sleep"}
    /\ sweepPc' = "done"
    /\ UNCHANGED <<dbVars, crudError, entity, shutdownPc, reservations, lock, now, callVars>>

\* a task without "except Exception", which an error in a tick ends
SweepAfterError_Ends == "done"

\* "except Exception as e: logging.error(...); await asyncio.sleep(60)": the task
\* waits inside the handler and then goes round the loop again
SweepAfterError == "retry"

\* a statement of the tick raises an exception other than CancelledError
SweepTickFails ==
    /\ sweepPc = "scan"
    /\ ~CancelRequested
    /\ LockFree
    /\ sweepPc' = SweepAfterError
    /\ UNCHANGED <<dbVars, sideVars, reservations, lock, now, callVars>>

\* the sleep inside the handler returns: next pass of "while True"
SweepRetry ==
    /\ sweepPc = "retry"
    /\ ~CancelRequested
    /\ sweepPc' = "scan"
    /\ UNCHANGED <<dbVars, sideVars, reservations, lock, now, callVars>>

\* CancelledError arrives in the sleep inside the handler and leaves the
\* coroutine: the task ends as cancelled
SweepCancelledInRetry ==
    /\ shutdownPc = "awaiting"
    /\ sweepPc = "retry"
    /\ sweepPc' = "done"
    /\ UNCHANGED <<dbVars, crudError, entity, shutdownPc, reservations, lock, now, callVars>>

\* --------------------------------------------------------------- shutdown
\* a shutdown that takes the task to be finished without looking
TaskDone_NotAwaited == TRUE

\* self._cleanup_task.done()
TaskDone == sweepPc = "done"

\* "if self._cleanup_task and not self._cleanup_task.done(): ... .cancel()"
ShutdownCall ==
    /\ shutdownPc = "idle"
    /\ shutdownPc' = IF TaskDone THEN "returned" ELSE "awaiting"
    /\ UNCHANGED <<dbVars, crudError, entity, reservations, lock, now, sweepPc, callVars>>

\* "await self._cleanup_task" completes
ShutdownReturn ==
    /\ shutdownPc = "awaiting"
    /\ TaskDone
    /\ shutdownPc' = "returned"
    /\ UNCHANGED <<dbVars, crudError, entity, reservations, lock, now, sweepPc, callVars>>

\* --------------------------------------------- InventoryCRUD.update_inventory
\* the row is looked up by its id; "if not inventory: raise NotFoundError";
\* of the fields of the request only quantity is copied to the row
UpdateInventory(p, q) ==
    /\ IF p \in stocked
       THEN /\ quantity' = [quantity EXCEPT ![p] = q]
            /\ crudError' = "none"
       ELSE /\ quantity' = quantity
            /\ crudError' = "NotFoundError"
    /\ UNCHANGED <<is_active, reserved, lineItems, stocked, shutdownPc, entity,
                   reservations, lock, now, sweepPc, callVars>>

\* --------------------------------------------- InventoryCRUD.create_inventory
\* a create_inventory that awaits the lookup
InventoryOnFile_Awaited(p) == p \in stocked

\* "db_inventory = self._read_inventory_by_product_id(...)" has no await: the
\* value is a coroutine object, and "if db_inventory:" is true of it
InventoryOnFile(p) == TRUE

CreateInventory(p, q, r) ==
    /\ r <= q          \* InventoryCreateSchema.model_post_init
    /\ IF InventoryOnFile(p)
       THEN /\ crudError' = "ConflictError"
            /\ UNCHANGED <<stocked, quantity, reserved>>
       ELSE IF p \in stocked       \* inventory.product_id is unique
       THEN /\ crudError' = "DatabaseIntegrityError"
            /\ UNCHANGED <<stocked, quantity, reserved>>
       ELSE /\ crudError' = "none"
            /\ stocked' = stocked \cup {p}
            /\ quantity' = [quantity EXCEPT ![p] = q]
            /\ reserved' = [reserved EXCEPT ![p] = r]
    /\ UNCHANGED <<is_active, lineItems, shutdownPc, entity, reservations, lock, now,
                   sweepPc, callVars>>

\* ------------------------------------------------- ProductCRUD.create_product
\* "product_id=db_product.id": the column default uuid.uuid4 is applied by the
\* flush, which has not happened when the attribute is read
UnflushedId == NoId

\* the inventory row is built with the product id read above and the
\* reserved_quantity of the request; inventory.product_id is Mapped[uuid.UUID],
\* not nullable, so the commit of a row without product id raises
\* IntegrityError and everything is rolled back
CreateProduct(q, r) ==
    /\ LET product_id == UnflushedId
       IN  IF product_id = NoId
           THEN /\ crudError' = "DatabaseIntegrityError"
                /\ UNCHANGED <<stocked, quantity, reserved>>
           ELSE /\ crudError' = "none"
                /\ stocked' = stocked \cup {product_id}
                /\ quantity' = [quantity EXCEPT ![product_id] = q]
                /\ reserved' = [reserved EXCEPT ![product_id] = r]
    /\ UNCHANGED <<is_active, lineItems, shutdownPc, entity, reservations, lock, now,
                   sweepPc, callVars>>

\* --------------------------------------------- InventoryCRUD.delete_inventory
\* the row is looked up by its id; without a row the call returns False
DeleteInventory(p) ==
    /\ IF p \in stocked
       THEN /\ stocked' = stocked \ {p}
            /\ quantity' = [quantity EXCEPT ![p] = 0]
            /\ reserved' = [reserved EXCEPT ![p] = 0]
       ELSE UNCHANGED <<stocked, quantity, reserved>>
    /\ crudError' = "none"
    /\ UNCHANGED <<is_active, lineItems, shutdownPc, entity, reservations, lock, now,
                   sweepPc, callVars>>

\* ------------------------------ shared domain model: Inventory (dataclass)
\* arguments of the methods: any integer, here up to MaxArg either way
EntityArgs == (0 - MaxArg)..MaxArg

\* the numbers an object may hold within the bound
InRange(e) ==
    /\ e.quantity \in (0 - MaxStock)..MaxStock
    /\ e.reserved_quantity \in (0 - MaxStock)..MaxStock

\* validate(): raises unless 0 <= reserved_quantity <= quantity
\* (low_stock_threshold keeps its default, which no method changes)
Validate(e) ==
    /\ ~(e.quantity < 0)
    /\ ~(e.reserved_quantity < 0)
    /\ ~(e.reserved_quantity > e.quantity)

\* objects that pass validate()
ValidEntities ==
    {e \in [quantity : 0..MaxStock, reserved_quantity : 0..MaxStock, raised : {FALSE}] :
        Validate(e)}

\* get_available_quantity
GetAvailableQuantity(e) == Max(0, e.quantity - e.reserved_quantity)

\* can_reserve
CanReserve(e, n) == GetAvailableQuantity(e) >= n

Raised(e) == [e EXCEPT !.raised = TRUE]

\* reserve_stock
ReserveStockOn(e, n) ==
    IF ~CanReserve(e, n) THEN Raised(e)
    ELSE [e EXCEPT !.reserved_quantity = @ + n, !.raised = FALSE]

\* release_reserved_stock
ReleaseReservedStockOn(e, n) ==
    IF n > e.reserved_quantity THEN Raised(e)
    ELSE [e EXCEPT !.reserved_quantity = @ - n, !.raised = FALSE]

\* adjust_quantity
AdjustQuantityOn(e, adjustment) ==
    LET new_quantity == e.quantity + adjustment
    IN  IF new_quantity < 0 THEN Raised(e)
        ELSE [e EXCEPT !.quantity = new_quantity, !.raised = FALSE]

\* fulfill_reservation
FulfillReservationOn(e, n) ==
    IF n > e.reserved_quantity THEN Raised(e)
    ELSE [e EXCEPT !.reserved_quantity = @ - n, !.quantity = @ - n, !.raised = FALSE]

\* everything but the domain object
serviceVars == <<dbVars, shutdownPc, crudError, reservations, lock, now, sweepPc, callVars>>

ReserveStock(n) ==
    /\ entity' = ReserveStockOn(entity, n)
    /\ InRange(entity')
    /\ UNCHANGED serviceVars

ReleaseReservedStock(n) ==
    /\ entity' = ReleaseReservedStockOn(entity, n)
    /\ InRange(entity')
    /\ UNCHANGED serviceVars

AdjustQuantity(adjustment) ==
    /\ entity' = AdjustQuantityOn(entity, adjustment)
    /\ InRange(entity')
    /\ UNCHANGED serviceVars

FulfillReservation(n) ==
    /\ entity' = FulfillReservationOn(entity, n)
    /\ InRange(entity')
    /\ UNCHANGED serviceVars

\* ------------------------------------------------------------------ clock
AdvanceClock ==
    /\ now + ClockStep <= MaxTime
    /\ now' = now + ClockStep
    /\ UNCHANGED <<dbVars, sideVars, reservations, lock, sweepPc, callVars>>

\* ------------------------------------------------------------------- Next
\* requests, stock adjustments and sweep ticks within one stretch of the clock
Next ==
    \/ \E c \in Clients, rid \in SuppliedIds \cup {""}, items \in Batches :
          ReserveCall(c, rid, items)
    \/ \E c \in Clients : ReserveAcquire(c)
    \/ \E c \in Clients : ReserveCheck(c)
    \/ \E c \in Clients : ReserveCommit(c)
    \/ \E c \in Clients, rid \in ReservationIds : ReleaseCall(c, rid)
    \/ \E c \in Clients : ReleaseAcquire(c)
    \/ \E c \in Clients : ReleaseCheck(c)
    \/ \E c \in Clients : ReleaseApply(c)
    \/ \E c \in Clients : Return(c)
    \/ SweepTick
    \/ SweepWake
    \/ \E p \in Products, q \in StockLevels : UpdateInventory(p, q)

Spec == Init /\ [][Next]_vars

\* the same while time passes, so that reservations outlive their expires_at
NextClock ==
    \/ \E c \in Clients, rid \in SuppliedIds \cup {""}, items \in Batches :
          ReserveCall(c, rid, items)
    \/ \E c \in Clients : ReserveAcquire(c)
    \/ \E c \in Clients : ReserveCheck(c)
    \/ \E c \in Clients : ReserveCommit(c)
    \/ \E c \in Clients, rid \in ReservationIds : ReleaseCall(c, rid)
    \/ \E c \in Clients : ReleaseAcquire(c)
    \/ \E c \in Clients : ReleaseCheck(c)
    \/ \E c \in Clients : ReleaseApply(c)
    \/ \E c \in Clients : Return(c)
    \/ SweepTick
    \/ SweepWake
    \/ \E p \in Products, q \in StockLevels : UpdateInventory(p, q)
    \/ AdvanceClock

SpecClock == Init /\ [][NextClock]_vars

\* the cleanup task is scheduled again and again by the event loop
FairSpec == SpecClock /\ WF_vars(SweepTick) /\ WF_vars(SweepWake)

\* the operations of Next with a store that may fail at any statement
NextFaulty ==
    \/ \E c \in Clients, rid \in SuppliedIds \cup {""}, items \in Batches :
          ReserveCall(c, rid, items)
    \/ \E c \in Clients : ReserveAcquire(c)
    \/ \E c \in Clients : ReserveCheck(c)
    \/ \E c \in Clients : ReserveCommit(c)
    \/ \E c \in Clients : ReserveStoreFailure(c)
    \/ \E c \in Clients, rid \in ReservationIds : ReleaseCall(c, rid)
    \/ \E c \in Clients : ReleaseAcquire(c)
    \/ \E c \in Clients : ReleaseCheck(c)
    \/ \E c \in Clients : ReleaseCheckFailure(c)
    \/ \E c \in Clients : ReleaseApply(c)
    \/ \E c \in Clients : ReleaseApplyFailure(c)
    \/ \E c \in Clients : ReleaseCommitFailure(c)
    \/ \E c \in Clients : Return(c)
    \/ SweepTick
    \/ SweepWake
    \/ \E p \in Products, q \in StockLevels : UpdateInventory(p, q)

SpecFaulty == Init /\ [][NextFaulty]_vars

\* the read-only RPCs next to the REST calls that change and delete inventory
\* rows
NextQuery ==
    \/ \E c \in Clients, pid \in ProductIds : GetProductCall(c, pid)
    \/ \E c \in Clients : GetProduct(c)
    \/ \E c \in Clients : GetProductStoreFailure(c)
    \/ \E c \in Clients, ids \in IdLists : GetMultipleProductsCall(c, ids)
    \/ \E c \in Clients : GetMultipleProducts(c)
    \/ \E c \in Clients : GetMultipleStoreFailure(c)
    \/ \E c \in Clients : Return(c)
    \/ \E p \in Products, q \in StockLevels : UpdateInventory(p, q)
    \/ \E p \in Products : DeleteInventory(p)

SpecQuery == Init /\ [][NextQuery]_vars

\* the operations of Next while nobody adjusts the stock
NextFixedStock ==
    \/ \E c \in Clients, rid \in SuppliedIds \cup {""}, items \in Batches :
          ReserveCall(c, rid, items)
    \/ \E c \in Clients : ReserveAcquire(c)
    \/ \E c \in Clients : ReserveCheck(c)
    \/ \E c \in Clients : ReserveCommit(c)
    \/ \E c \in Clients, rid \in ReservationIds : ReleaseCall(c, rid)
    \/ \E c \in Clients : ReleaseAcquire(c)
    \/ \E c \in Clients : ReleaseCheck(c)
    \/ \E c \in Clients : ReleaseApply(c)
    \/ \E c \in Clients : Return(c)
    \/ SweepTick
    \/ SweepWake

SpecFixedStock == Init /\ [][NextFixedStock]_vars

\* two callers, each sending one ReserveProducts request for 3 units of A
\* while A has 5 in stock and nothing reserved
RaceBatch == <<[product_id |-> "A", quantity |-> 3]>>

InitRace == Init /\ quantity["A"] = 5

NextRace ==
    \/ \E c \in Callers, rid \in SuppliedIds \cup {""} : ReserveCall(c, rid, RaceBatch)
    \/ \E c \in Callers : ReserveAcquire(c)
    \/ \E c \in Callers : ReserveCheck(c)
    \/ \E c \in Callers : ReserveCommit(c)
    \/ SweepTick
    \/ SweepWake
    \/ AdvanceClock

SpecRace == InitRace /\ [][NextRace]_vars

\* product P of the walk-through: 10 in stock, nothing reserved; the order
\* service reserves 4 as R1, then asks for 7 as R2, then releases R1
ScenarioStock == 10
ScenarioFirst == <<[product_id |-> "A", quantity |-> 4]>>
ScenarioSecond == <<[product_id |-> "A", quantity |-> 7]>>

InitScenario ==
    /\ is_active \in ActiveChoices
    /\ quantity \in {q \in [Products -> StockLevels \cup {ScenarioStock}] :
                        q["A"] = ScenarioStock}
    /\ reserved = [p \in Products |-> 0]
    /\ lineItems = <<>>
    /\ reservations = <<>>
    /\ lock = NoHolder
    /\ now = 0
    /\ sweepPc = "scan"
    /\ shutdownPc = "idle"
    /\ stocked = Products
    /\ crudError = "none"
    /\ entity = NoEntity
    /\ pc = [c \in Callers |-> "idle"]
    /\ req = [c \in Callers |-> NoRequest]
    /\ sess = [c \in Callers |-> NoSession]
    /\ resp = [c \in Callers |-> NoResponse]

\* c1 sends Reserve(R1) and, after c2's Reserve(R2) has returned, Release(R1);
\* meanwhile the sweep ticks, time passes and the stock of B is adjusted
NextScenario ==
    \/ lineItems = <<>> /\ ReserveCall("c1", "R1", ScenarioFirst)
    \/ /\ pc["c1"] = "idle"
       /\ Len(lineItems) = 1
       /\ lineItems[1].status = "ACTIVE"
       /\ ReserveCall("c2", "R2", ScenarioSecond)
    \/ \E c \in Callers : ReserveAcquire(c)
    \/ \E c \in Callers : ReserveCheck(c)
    \/ \E c \in Callers : ReserveCommit(c)
    \/ resp["c1"].kind = "reserve" /\ Return("c1")
    \/ pc["c2"] = "done" /\ ReleaseCall("c1", "R1")
    \/ ReleaseAcquire("c1")
    \/ ReleaseCheck("c1")
    \/ ReleaseApply("c1")
    \/ SweepTick
    \/ SweepWake
    \/ \E q \in StockLevels : UpdateInventory("B", q)
    \/ AdvanceClock

SpecScenario == InitScenario /\ [][NextScenario]_vars

\* the REST calls of the CRUD layer next to one caller that reserves and
\* releases 3 units of A
NextCrud ==
    \/ \E c \in Clients, rid \in SuppliedIds \cup {""} : ReserveCall(c, rid, RaceBatch)
    \/ \E c \in Clients : ReserveAcquire(c)
    \/ \E c \in Clients : ReserveCheck(c)
    \/ \E c \in Clients : ReserveCommit(c)
    \/ \E c \in Clients, rid \in ReservationIds : ReleaseCall(c, rid)
    \/ \E c \in Clients : ReleaseAcquire(c)
    \/ \E c \in Clients : ReleaseCheck(c)
    \/ \E c \in Clients : ReleaseApply(c)
    \/ \E c \in Clients : Return(c)
    \/ \E p \in Products, q \in StockLevels, r \in ReservedInputs : CreateInventory(p, q, r)
    \/ \E q \in StockLevels, r \in ReservedInputs : CreateProduct(q, r)
    \/ \E p \in Products, q \in StockLevels : UpdateInventory(p, q)
    \/ \E p \in Products : DeleteInventory(p)

SpecCrud == Init /\ [][NextCrud]_vars

\* the process is shut down while two callers reserve
NextShutdown ==
    \/ \E c \in Callers, rid \in SuppliedIds \cup {""} : ReserveCall(c, rid, RaceBatch)
    \/ \E c \in Callers : ReserveAcquire(c)
    \/ \E c \in Callers : ReserveCheck(c)
    \/ \E c \in Callers : ReserveCommit(c)
    \/ \E c \in Callers : Return(c)
    \/ SweepTick
    \/ SweepWake
    \/ SweepCancelled
    \/ ShutdownCall
    \/ ShutdownReturn
    \/ AdvanceClock

SpecShutdown == Init /\ [][NextShutdown]_vars

\* two callers that reserve and release at the same time as the cleanup task
\* runs: one product alone or two products in one batch
PairBatch == <<[product_id |-> "A", quantity |-> 1], [product_id |-> "B", quantity |-> 1]>>
ConcurrentBatches == {RaceBatch, PairBatch}

NextConcurrent ==
    \/ \E c \in Callers, rid \in SuppliedIds \cup {""}, items \in ConcurrentBatches :
          ReserveCall(c, rid, items)
    \/ \E c \in Callers : ReserveAcquire(c)
    \/ \E c \in Callers : ReserveCheck(c)
    \/ \E c \in Callers : ReserveCommit(c)
    \/ \E c \in Callers, rid \in ReservationIds : ReleaseCall(c, rid)
    \/ \E c \in Callers : ReleaseAcquire(c)
    \/ \E c \in Callers : ReleaseCheck(c)
    \/ \E c \in Callers : ReleaseApply(c)
    \/ \E c \in Callers : Return(c)
    \/ SweepTick
    \/ SweepWake

SpecConcurrent == Init /\ [][NextConcurrent]_vars

\* two callers whose calls may fail in the store or be cancelled, next to the
\* cleanup task
NextLock ==
    \/ \E c \in Callers, rid \in SuppliedIds \cup {""} : ReserveCall(c, rid, RaceBatch)
    \/ \E c \in Callers : ReserveAcquire(c)
    \/ \E c \in Callers : ReserveCheck(c)
    \/ \E c \in Callers : ReserveCommit(c)
    \/ \E c \in Callers : ReserveStoreFailure(c)
    \/ \E c \in Callers, rid \in ReservationIds : ReleaseCall(c, rid)
    \/ \E c \in Callers : ReleaseAcquire(c)
    \/ \E c \in Callers : ReleaseCheck(c)
    \/ \E c \in Callers : ReleaseCheckFailure(c)
    \/ \E c \in Callers : ReleaseApply(c)
    \/ \E c \in Callers : ReleaseApplyFailure(c)
    \/ \E c \in Callers : ReleaseCommitFailure(c)
    \/ \E c \in Callers : CallCancelled(c)
    \/ \E c \in Callers : Return(c)
    \/ SweepTick
    \/ SweepWake

SpecLock == InitRace /\ [][NextLock]_vars

\* a step of the call that holds the lock: the store answers, or fails, and the
\* handler runs on to its next await
SectionStep(c) ==
    \/ ReserveCheck(c)
    \/ ReserveCommit(c)
    \/ ReserveStoreFailure(c)
    \/ ReleaseCheck(c)
    \/ ReleaseCheckFailure(c)
    \/ ReleaseApply(c)
    \/ ReleaseApplyFailure(c)
    \/ ReleaseCommitFailure(c)

\* asyncio.Lock.acquire: the waiters queue up and release() wakes the first
Acquire(c) == ReserveAcquire(c) \/ ReleaseAcquire(c)

\* the event loop runs every handler that can go on, and the lock goes to its
\* waiters in turn
FairLock ==
    /\ SpecLock
    /\ \A c \in Callers : WF_vars(SectionStep(c))
    /\ \A c \in Callers : SF_vars(Acquire(c))

\* the cleanup task with ticks that raise, its shutdown, and two callers that
\* reserve meanwhile
NextSweep ==
    \/ \E c \in Callers, rid \in SuppliedIds \cup {""} : ReserveCall(c, rid, RaceBatch)
    \/ \E c \in Callers : ReserveAcquire(c)
    \/ \E c \in Callers : ReserveCheck(c)
    \/ \E c \in Callers : ReserveCommit(c)
    \/ \E c \in Callers : Return(c)
    \/ SweepTick
    \/ SweepTickFails
    \/ SweepWake
    \/ SweepRetry
    \/ SweepCancelled
    \/ SweepCancelledInRetry
    \/ ShutdownCall
    \/ ShutdownReturn
    \/ AdvanceClock

SpecSweep == Init /\ [][NextSweep]_vars

\* requests whose items carry any integer the message field can hold: none
\* (the field's default 0), a negative number or a positive one
SignedQuantities == {-1, 0, 1}
SignedItems == [product_id : Products, quantity : SignedQuantities]
SignedBatches == SeqsUpTo(SignedItems, MaxItems)

NextSigned ==
    \/ \E c \in Clients, rid \in SuppliedIds \cup {""}, items \in SignedBatches :
          ReserveCall(c, rid, items)
    \/ \E c \in Clients : ReserveAcquire(c)
    \/ \E c \in Clients : ReserveCheck(c)
    \/ \E c \in Clients : ReserveCommit(c)
    \/ \E c \in Clients, rid \in ReservationIds : ReleaseCall(c, rid)
    \/ \E c \in Clients : ReleaseAcquire(c)
    \/ \E c \in Clients : ReleaseCheck(c)
    \/ \E c \in Clients : ReleaseApply(c)
    \/ \E c \in Clients : Return(c)
    \/ SweepTick
    \/ SweepWake

SpecSigned == Init /\ [][NextSigned]_vars

\* an Inventory object that passes validate() and the calls of its methods
InitEntity ==
    /\ is_active = [p \in Products |-> TRUE]
    /\ quantity = [p \in Products |-> 5]
    /\ reserved = [p \in Products |-> 0]
    /\ lineItems = <<>>
    /\ reservations = <<>>
    /\ lock = NoHolder
    /\ now = 0
    /\ sweepPc = "scan"
    /\ shutdownPc = "idle"
    /\ stocked = Products
    /\ crudError = "none"
    /\ entity \in ValidEntities
    /\ pc = [c \in Callers |-> "idle"]
    /\ req = [c \in Callers |-> NoRequest]
    /\ sess = [c \in Callers |-> NoSession]
    /\ resp = [c \in Callers |-> NoResponse]

NextEntity ==
    \/ \E n \in EntityArgs : ReserveStock(n)
    \/ \E n \in EntityArgs : ReleaseReservedStock(n)
    \/ \E a \in EntityArgs : AdjustQuantity(a)
    \/ \E n \in EntityArgs : FulfillReservation(n)

SpecEntity == InitEntity /\ [][NextEntity]_vars

\* ================================================================= claims

\* rows of the reservation that are stored as ACTIVE
ActiveRowsOf(items, rid) ==
    {i \in 1..Len(items) : items[i].reservation_id = rid /\ items[i].status = "ACTIVE"}

RECURSIVE SumOver(_, _)
SumOver(items, I) ==
    IF I = {} THEN 0
    ELSE LET i == CHOOSE x \in I : TRUE
         IN  items[i].quantity + SumOver(items, I \ {i})

\* sum of the quantities of the ACTIVE line items of product p
ActiveSum(items, p) ==
    SumOver(items, {i \in 1..Len(items) : items[i].product_id = p /\ items[i].status = "ACTIVE"})

\* C1: in every reachable state every product's ledger row satisfies
\* 0 <= reserved_quantity <= total quantity
C1_LedgerWithinStock ==
    \A p \in Products : 0 <= reserved[p] /\ reserved[p] <= quantity[p]

\* C2: a ReserveProducts call in which some item failed changes no ledger row and
\* stores no line item: every step of the call that is not a successful commit
\* leaves reserved_quantity and the stored line items as they were
C2_FailedBatchCommitsNothing ==
    [][\A c \in Callers :
          (/\ pc[c] \in {"rsv_wait", "rsv_check"}
           /\ ~(pc'[c] = "done" /\ resp'[c].all_reserved))
          => (reserved' = reserved /\ lineItems' = lineItems)]_vars

\* a batch was rejected although one of its items had enough stock
C2_Witness ==
    \E c \in Callers :
        /\ pc[c] = "done"
        /\ resp[c].kind = "reserve"
        /\ resp[c].status = "OK"
        /\ ~resp[c].all_reserved
        /\ \E i \in 1..Len(resp[c].results) : resp[c].results[i].success
        /\ \E i \in 1..Len(resp[c].results) : ~resp[c].results[i].success

\* C3: of two concurrent ReserveProducts calls, each asking for 3 of the 5 units
\* of A, exactly one returns all_reserved = true and the other is refused for
\* insufficient stock
C3_ExactlyOneWins ==
    (\A c \in Callers : pc[c] = "done" /\ resp[c].status = "OK")
    => \E w \in Callers :
          /\ resp[w].all_reserved
          /\ \A l \in Callers \ {w} :
                /\ ~resp[l].all_reserved
                /\ resp[l].results[1].message = "insufficient"

\* both calls have returned
C3_Witness ==
    /\ \A c \in Callers : pc[c] = "done" /\ resp[c].kind = "reserve"
    /\ \E c \in Callers : resp[c].all_reserved
    /\ \E c \in Callers : ~resp[c].all_reserved

\* C4: for every product the quantities of its ACTIVE line items add up to at
\* most its total quantity, whatever ReserveProducts calls were made
C4_NoOverselling ==
    \A p \in Products : ActiveSum(lineItems, p) <= quantity[p]

\* C5: while no Reserve or Release holds the lock, every product's
\* reserved_quantity equals the sum of its ACTIVE line items
C5_LedgerEqualsActiveSum ==
    lock = NoHolder => \A p \in Products : reserved[p] = ActiveSum(lineItems, p)

\* C6: a ReleaseReservation call for a reservation id without ACTIVE line items
\* returns success = false and changes neither a line item nor a ledger row
C6_ReleaseOfNothing ==
    [][\A c \in Callers :
          (/\ pc[c] \in {"rel_wait", "rel_check", "rel_apply"}
           /\ pc'[c] # pc[c]
           /\ ActiveRowsOf(lineItems, req[c].reservation_id) = {})
          => /\ lineItems' = lineItems
             /\ reserved' = reserved
             /\ quantity' = quantity
             /\ pc'[c] \in {"rel_check", "done"}
             /\ pc'[c] = "done" => (resp'[c].kind = "release" /\ ~resp'[c].success)]_vars

\* a second release of a reservation that was already released has returned
C6_Witness ==
    \E c \in Callers :
        /\ pc[c] = "done"
        /\ resp[c].kind = "release"
        /\ ~resp[c].success
        /\ \E i \in 1..Len(lineItems) :
              /\ lineItems[i].reservation_id = req[c].reservation_id
              /\ lineItems[i].status = "RELEASED"
              /\ lineItems[i].quantity > 0

\* C7: when a ReserveProducts call commits, releasing the returned reservation
\* id right away gives every product of the batch the reserved_quantity it had
\* before the call
C7_RoundTrip ==
    [][\A c \in Callers :
          (pc[c] = "rsv_check" /\ pc'[c] = "done" /\ resp'[c].all_reserved)
          => LET rid == resp'[c].reservation_id
                 after == ReleaseLedger(reserved', ActiveByReservation(lineItems', rid))
             IN  \A i \in 1..Len(req[c].items) :
                    after[req[c].items[i].product_id] = reserved[req[c].items[i].product_id]]_vars

\* ACTIVE rows whose expires_at has passed
ExpiredRows ==
    LET IsExpired(li) == li.status = "ACTIVE" /\ li.expires_at < now
    IN  SelectSeq(lineItems, IsExpired)

\* C8: a sweep tick leaves the ledger as ReleaseReservation would leave it for
\* the reservations whose expires_at has passed
C8_ExpiryEquivalence ==
    [][(sweepPc = "scan" /\ sweepPc' = "sleep")
          => reserved' = ReleaseLedger(reserved, ExpiredRows)]_vars

\* C9: an ACTIVE line item whose expires_at has passed eventually stops being
\* ACTIVE (expired by the sweep, or released first)
C9_ExpiryLiveness ==
    \A i \in 1..MaxLineItems :
        (i <= Len(lineItems) /\ lineItems[i].status = "ACTIVE" /\ lineItems[i].expires_at < now)
        ~> (i <= Len(lineItems) /\ lineItems[i].status # "ACTIVE")

\* C10: a line item is created ACTIVE; its status changes only from ACTIVE to
\* RELEASED (by a release call for its reservation id) or from ACTIVE to EXPIRED
\* (by the sweep); a RELEASED or EXPIRED row never changes and no quantity does
C10_Lifecycle ==
    [][/\ Len(lineItems') >= Len(lineItems)
       /\ \A i \in 1..Len(lineItems') :
             IF i > Len(lineItems)
             THEN lineItems'[i].status = "ACTIVE"
             ELSE /\ lineItems'[i].quantity = lineItems[i].quantity
                  /\ lineItems[i].status # "ACTIVE" => lineItems'[i] = lineItems[i]
                  /\ lineItems'[i].status # lineItems[i].status =>
                        \/ /\ lineItems'[i].status = "RELEASED"
                           /\ \E c \in Callers :
                                 /\ pc[c] = "rel_apply"
                                 /\ pc'[c] = "done"
                                 /\ req[c].reservation_id = lineItems[i].reservation_id
                        \/ /\ lineItems'[i].status = "EXPIRED"
                           /\ sweepPc = "scan"
                           /\ sweepPc' = "sleep"]_vars

\* two reservations were released one after the other
C10_Witness ==
    \E i, j \in 1..Len(lineItems) :
        /\ lineItems[i].status = "RELEASED"
        /\ lineItems[j].status = "RELEASED"
        /\ lineItems[i].reservation_id # lineItems[j].reservation_id

\* C11: with A at total 10 and nothing reserved, Reserve(R1,[(A,4)]) succeeds and
\* leaves reserved 4 and available 6; Reserve(R2,[(A,7)]) is then refused with
\* "available 6, requested 7" and leaves reserved 4; Release(R1) then succeeds
\* and leaves reserved 0
C11_Scenario ==
    /\ (pc["c1"] = "done" /\ resp["c1"].kind = "reserve")
          => /\ resp["c1"].status = "OK"
             /\ resp["c1"].all_reserved
             /\ resp["c1"].reservation_id = "R1"
             /\ reserved["A"] = 4
             /\ AvailableQuantity("A") = 6
    /\ pc["c2"] = "done"
          => /\ resp["c2"].status = "OK"
             /\ ~resp["c2"].all_reserved
             /\ resp["c2"].results = <<Result("A", FALSE, 0, "insufficient", 6)>>
             /\ req["c2"].items[1].quantity = 7
             /\ pc["c1"] # "done" => reserved["A"] = 4
    /\ (pc["c1"] = "done" /\ resp["c1"].kind = "release")
          => /\ resp["c1"].status = "OK"
             /\ resp["c1"].success
             /\ reserved["A"] = 0

\* the walk-through has run to its end: R2 was refused and R1 released
C11_Witness ==
    /\ pc["c2"] = "done"
    /\ ~resp["c2"].all_reserved
    /\ pc["c1"] = "done"
    /\ resp["c1"].kind = "release"
    /\ resp["c1"].success
    /\ lineItems[1].status = "RELEASED"

\* the item asks for a product that is missing, inactive or short of stock
ItemRefused(item) ==
    LET pid == item.product_id
    IN  \/ pid \in UnknownIds
        \/ /\ pid \in Products
           /\ \/ pid \notin stocked
              \/ ~is_active[pid]
              \/ quantity[pid] - ActiveSum(lineItems, pid) < item.quantity

\* C12: when an item of a ReserveProducts call is missing, inactive or short of
\* stock, its result is recorded with success = false and the call ends normally:
\* status OK, all_reserved = false, the recorded results in the response
C12_RefusalIsNormalOutcome ==
    [][\A c \in Callers :
          /\ (/\ pc[c] = "rsv_check"
              /\ pc'[c] = "rsv_check"
              /\ sess'[c].idx = sess[c].idx + 1
              /\ ItemRefused(req[c].items[sess[c].idx]))
             => /\ ~sess'[c].all_reserved
                /\ ~sess'[c].results[sess[c].idx].success
          /\ (pc[c] = "rsv_check" /\ ~sess[c].all_reserved)
             => IF pc'[c] = "rsv_check"
                THEN /\ ~sess'[c].all_reserved
                     /\ SubSeq(sess'[c].results, 1, Len(sess[c].results)) = sess[c].results
                ELSE /\ pc'[c] = "done"
                     /\ resp'[c].kind = "reserve"
                     /\ resp'[c].status = "OK"
                     /\ ~resp'[c].all_reserved
                     /\ resp'[c].results = sess[c].results]_vars

\* a call has returned normally with one item short of stock and another
\* missing or inactive
C12_Witness ==
    \E c \in Callers :
        /\ pc[c] = "done"
        /\ resp[c].kind = "reserve"
        /\ resp[c].status = "OK"
        /\ ~resp[c].all_reserved
        /\ \E i, j \in 1..Len(resp[c].results) :
              /\ resp[c].results[i].message = "insufficient"
              /\ resp[c].results[j].message \in {"not_found", "inactive"}

\* a step in which a statement of the call's store session raised
StoreFailureStep(c) ==
    \/ ReserveStoreFailure(c)
    \/ ReleaseCheckFailure(c)
    \/ ReleaseApplyFailure(c)
    \/ ReleaseCommitFailure(c)

\* C13: a ReserveProducts or ReleaseReservation call in which the store fails
\* ends with status INTERNAL, reports no success and leaves every line item
\* and every ledger row as they were before the call's writes
C13_FailureRollsBack ==
    [][\A c \in Callers :
          StoreFailureStep(c)
          => /\ resp'[c].status = "INTERNAL"
             /\ ~resp'[c].success
             /\ ~resp'[c].all_reserved
             /\ lineItems' = lineItems
             /\ reserved' = reserved]_vars

\* C14: GetProduct ends with INVALID_ARGUMENT for a malformed id, with INTERNAL
\* when the store fails, with NOT_FOUND for a well-formed id without a product
\* row, and with OK for every product on file
C14_GetProductStatus ==
    [][\A c \in Callers :
          (pc[c] = "get" /\ pc'[c] = "done")
          => LET pid == req[c].product_ids[1]
             IN  resp'[c].status =
                    IF pid \in MalformedIds THEN "INVALID_ARGUMENT"
                    ELSE IF GetProductStoreFailure(c) THEN "INTERNAL"
                    ELSE IF pid \notin Products THEN "NOT_FOUND"
                    ELSE "OK"]_vars

\* C15: GetMultipleProducts skips malformed ids and answers OK with exactly the
\* products on file among the well-formed ids, each once; only a failing store
\* makes it answer INTERNAL, and never when every id is malformed
C15_MalformedIdsSkipped ==
    [][\A c \in Callers :
          (pc[c] = "get_many" /\ pc'[c] = "done")
          => LET ids == req[c].product_ids
                 wanted == {ids[i] : i \in 1..Len(ids)} \cap Products
                 got == resp'[c].products
             IN  IF GetMultipleStoreFailure(c)
                 THEN /\ resp'[c].status = "INTERNAL"
                      /\ \E i \in 1..Len(ids) : ids[i] \notin MalformedIds
                 ELSE /\ resp'[c].status = "OK"
                      /\ {got[i].product_id : i \in 1..Len(got)} = wanted
                      /\ Len(got) = Cardinality(wanted)]_vars

\* C16: shutdown() returns only when the cleanup task is done, and once it has
\* returned the task stays done and runs no further tick
C16_ShutdownStopsSweep ==
    /\ [](shutdownPc = "returned" => sweepPc = "done")
    /\ [][shutdownPc = "returned" => (shutdownPc' = "returned" /\ sweepPc' = sweepPc)]_vars
    /\ [][sweepPc = "done" => sweepPc' = "done"]_vars

\* shutdown() has returned although a call was holding the lock, so that the
\* task could not run its tick
C16_Witness ==
    /\ shutdownPc = "returned"
    /\ sweepPc = "done"
    /\ lock # NoHolder
    /\ \E c \in Callers : pc[c] = "rsv_wait"

\* a step of the inventory or product CRUD layer
CrudStep ==
    \/ \E p \in Products, q \in StockLevels, r \in ReservedInputs : CreateInventory(p, q, r)
    \/ \E q \in StockLevels, r \in ReservedInputs : CreateProduct(q, r)
    \/ \E p \in Products, q \in StockLevels : UpdateInventory(p, q)
    \/ \E p \in Products : DeleteInventory(p)

RequestedOf(items, p) ==
    SumOver(items, {i \in 1..Len(items) : items[i].product_id = p})

\* C18: when every item of a ReserveProducts batch succeeds the call commits one
\* ACTIVE line item per requested item, expiring 15 minutes after the call, and
\* raises the reserved_quantity of every product of the batch by exactly the
\* quantity the batch asks of that product, whatever the size of the batch
C18_CommitCoversWholeBatch ==
    [][\A c \in Callers :
          (pc[c] = "rsv_check" /\ pc'[c] = "done" /\ resp'[c].all_reserved)
          => LET items == req[c].items
                 n == Len(lineItems)
             IN  /\ Len(lineItems') = n + Len(items)
                 /\ SubSeq(lineItems', 1, n) = lineItems
                 /\ \A i \in 1..Len(items) :
                       /\ lineItems'[n + i].reservation_id = resp'[c].reservation_id
                       /\ lineItems'[n + i].product_id = items[i].product_id
                       /\ lineItems'[n + i].quantity = items[i].quantity
                       /\ lineItems'[n + i].status = "ACTIVE"
                       /\ lineItems'[n + i].expires_at = now + ReservationTTL
                 /\ \A p \in Products :
                       reserved'[p] = reserved[p] + RequestedOf(items, p)]_vars

\* C19: a ReleaseReservation call that returns success = true leaves no line item
\* of its reservation id ACTIVE (those that were ACTIVE are RELEASED, every other
\* line item is as before), leaves each affected product with a reserved_quantity
\* of max(0, previous value minus the quantities of its released line items) and
\* leaves the ledger rows of all other products unchanged
C19_ReleaseEffect ==
    [][\A c \in Callers :
          (/\ req[c].kind = "release"
           /\ pc[c] # "done"
           /\ pc'[c] = "done"
           /\ resp'[c].success)
          => LET rid == req[c].reservation_id
                 released == ActiveRowsOf(lineItems, rid)
             IN  /\ released # {}
                 /\ ActiveRowsOf(lineItems', rid) = {}
                 /\ Len(lineItems') = Len(lineItems)
                 /\ \A i \in 1..Len(lineItems) :
                       lineItems'[i] = IF i \in released
                                       THEN [lineItems[i] EXCEPT !.status = "RELEASED"]
                                       ELSE lineItems[i]
                 /\ \A p \in stocked :
                       LET mine == {i \in released : lineItems[i].product_id = p}
                       IN  reserved'[p] = IF mine = {} THEN reserved[p]
                                          ELSE Max(0, reserved[p] - SumOver(lineItems, mine))]_vars

\* the item names a well-formed id of an active product on file whose total
\* quantity less its ACTIVE line items covers the requested quantity
ItemReservable(item) ==
    LET pid == item.product_id
    IN  /\ pid \notin MalformedIds
        /\ pid \in Products
        /\ pid \in stocked
        /\ is_active[pid]
        /\ quantity[pid] - ActiveSum(lineItems, pid) >= item.quantity

C21_OneResultPerItem ==
    [][\A c \in Callers :
          /\ (pc[c] = "rsv_check" /\ pc'[c] = "rsv_check" /\ sess'[c].idx = sess[c].idx + 1)
             => LET k == sess[c].idx
                IN  /\ Len(sess[c].results) = k - 1
                    /\ Len(sess'[c].results) = k
                    /\ SubSeq(sess'[c].results, 1, k - 1) = sess[c].results
                    /\ sess'[c].results[k].product_id = req[c].items[k].product_id
          /\ (pc[c] = "rsv_check" /\ pc'[c] = "done" /\ resp'[c].status = "OK")
             => LET results == resp'[c].results
                    items == req[c].items
                IN  /\ Len(results) = Len(items)
                    /\ \A i \in 1..Len(items) : results[i].product_id = items[i].product_id
                    /\ resp'[c].all_reserved = (\A i \in 1..Len(results) : results[i].success)]_vars

\* a response whose first item was refused and whose second item was reserved
C21_Witness ==
    \E c \in Callers :
        /\ pc[c] = "done"
        /\ resp[c].kind = "reserve"
        /\ resp[c].status = "OK"
        /\ Len(resp[c].results) = 2
        /\ ~resp[c].results[1].success
        /\ resp[c].results[2].success
        /\ resp[c].results[1].product_id # resp[c].results[2].product_id

\* positions of a call between taking and giving back the reservation lock
InSection == {"rsv_check", "rel_check", "rel_apply"}

\* C22: while a ReserveProducts call is between taking the lock and its commit or
\* rollback, no other ReserveProducts or ReleaseReservation call is inside its
\* own check-and-commit section, no sweep tick runs, and the line items and the
\* ledger change only by that call's commit
C22_SectionsExclusive ==
    /\ [](\A c \in Callers : pc[c] \in InSection => lock = c)
    /\ [][\A c \in Callers :
             pc[c] = "rsv_check"
             => /\ \A d \in Callers \ {c} : pc[d] \notin InSection /\ pc'[d] \notin InSection
                /\ ~(sweepPc = "scan" /\ sweepPc' = "sleep")
                /\ (lineItems' # lineItems \/ reserved' # reserved) => pc'[c] = "done"]_vars

\* a call has read the availability of its item while the other caller waits to
\* release an earlier reservation and the cleanup task waits to scan
C22_Witness ==
    \E c, d \in Callers :
        /\ pc[c] = "rsv_check"
        /\ sess[c].idx = 2
        /\ pc[d] = "rel_wait"
        /\ sweepPc = "scan"
        /\ lineItems # <<>>

\* C23: the reservation lock is held only by a ReserveProducts or
\* ReleaseReservation call that is inside its section, never while the cleanup
\* task sleeps or after a holder has ended by return, exception or cancellation,
\* and a call that waits for the lock eventually leaves the wait
C23_LockReleased ==
    /\ [](lock # NoHolder => (lock \in Callers /\ pc[lock] \in InSection))
    /\ \A c \in Callers : (pc[c] \in {"rsv_wait", "rel_wait"}) ~> (pc[c] \in InSection \cup {"done"})

\* a call waits for the lock, which is free again after the other caller's call
\* was cancelled, while the cleanup task sleeps
C23_Witness ==
    \E c, d \in Callers :
        /\ pc[c] = "rel_wait"
        /\ pc[d] = "done"
        /\ resp[d].status = "CANCELLED"
        /\ lock = NoHolder
        /\ sweepPc = "sleep"

\* C24: an exception raised in a tick does not end the cleanup task: the task
\* waits in its handler and then starts the next tick; the task ends only after
\* it was cancelled
C24_SweepSurvivesErrors ==
    /\ [][SweepTickFails => sweepPc' = "retry"]_vars
    /\ [][sweepPc = "retry" => sweepPc' \in {"retry", "scan", "done"}]_vars
    /\ [][(sweepPc # "done" /\ sweepPc' = "done") => CancelRequested]_vars

\* the task waits in its handler after a tick that raised, while reservations
\* are stored and no shutdown was requested
C24_Witness ==
    /\ sweepPc = "retry"
    /\ shutdownPc = "idle"
    /\ now > 0
    /\ lineItems # <<>>

\* ACTIVE line items of product p that the step leaves with another status
LeavingActive(p) ==
    {i \in 1..Len(lineItems) : /\ lineItems[i].product_id = p
                               /\ lineItems[i].status = "ACTIVE"
                               /\ lineItems'[i].status # "ACTIVE"}

\* C25: no line item is half-migrated: the step that stores a line item as
\* RELEASED or EXPIRED is the step that subtracts its quantity from its product's
\* reserved_quantity (down to zero at most), and no step subtracts anything for a
\* line item it leaves ACTIVE
C25_NoHalfMigration ==
    [][\A p \in stocked \cap stocked' :
          IF LeavingActive(p) # {}
          THEN reserved'[p] = Max(0, reserved[p] - SumOver(lineItems, LeavingActive(p)))
          ELSE reserved'[p] >= reserved[p]]_vars

\* C26: every stored line item has a positive quantity, and a ReserveProducts
\* call changes the reserved_quantity of a product only when all its items for
\* that product ask for a positive quantity
C26_PositiveQuantities ==
    /\ [](\A i \in 1..Len(lineItems) : lineItems[i].quantity > 0)
    /\ [][\A c \in Callers, p \in Products :
             (pc[c] = "rsv_check" /\ reserved'[p] # reserved[p])
             => \A i \in 1..Len(req[c].items) :
                   req[c].items[i].product_id = p => req[c].items[i].quantity > 0]_vars

\* C27: the line items of one reservation id are all stored by one
\* ReserveProducts call: a call stores line items only under an id that no stored
\* line item carries yet
C27_OneCallPerReservationId ==
    [][\A c \in Callers :
          (pc[c] = "rsv_check" /\ Len(lineItems') > Len(lineItems))
          => \A i \in 1..Len(lineItems) :
                lineItems[i].reservation_id # req[c].reservation_id]_vars

\* C28: a ReserveProducts call with an empty item list ends normally, with
\* status OK and an empty results list, and changes no line item and no ledger
\* row
C28_EmptyBatch ==
    [][\A c \in Callers :
          (pc[c] = "rsv_check" /\ pc'[c] = "done" /\ req[c].items = <<>>)
          => /\ resp'[c].status = "OK"
             /\ resp'[c].results = <<>>
             /\ lineItems' = lineItems
             /\ reserved' = reserved
             /\ quantity' = quantity]_vars

\* C29: the quantity of a line item is subtracted from its product's
\* reserved_quantity at most once, however ReleaseReservation calls and sweep
\* ticks interleave: a line item that is not ACTIVE stays as it is, and a step
\* lowers a product's reserved_quantity by no more than the quantities of the
\* line items of that product that it takes out of ACTIVE
C29_SubtractedAtMostOnce ==
    [][/\ \A i \in 1..Len(lineItems) :
             lineItems[i].status # "ACTIVE" => lineItems'[i] = lineItems[i]
       /\ \A p \in Products :
             reserved[p] - reserved'[p] <= SumOver(lineItems, LeavingActive(p))]_vars

\* both callers have released the same reservation: one call was told
\* success = true, the other success = false
C29_Witness ==
    /\ \A c \in Callers : pc[c] = "done" /\ resp[c].kind = "release"
    /\ req["c1"].reservation_id = req["c2"].reservation_id
    /\ \E c \in Callers : resp[c].success
    /\ \E c \in Callers : ~resp[c].success
    /\ \E i \in 1..Len(lineItems) :
          /\ lineItems[i].reservation_id = req["c1"].reservation_id
          /\ lineItems[i].status = "RELEASED"

\* C30: an Inventory object of the domain model that passes validate() still
\* passes it after any calls of reserve_stock, release_reserved_stock,
\* fulfill_reservation and adjust_quantity, and a call that raises ValueError
\* leaves quantity and reserved_quantity as they were
C30_EntityStaysValid ==
    /\ [](Validate(entity))
    /\ [][entity'.raised => (/\ entity'.quantity = entity.quantity
                             /\ entity'.reserved_quantity = entity.reserved_quantity)]_vars

====
